---- MODULE Spec2Model ----
(***************************************************************************)
(* A model of the turing crate: the tape (src/src/tape.rs, both backends), *)
(* and the execution loop of the machine (src/src/machine.rs) over a       *)
(* Program (src/src/program.rs).                                           *)
(*                                                                         *)
(* Segments are the strings "Zero", "One", "Empty"; a text is a sequence   *)
(* of one-character strings; a State is its number.  A panic of the Rust   *)
(* code (a failed assert!, an index out of bounds) is the control state    *)
(* "panicked".                                                             *)
(***************************************************************************)
EXTENDS Integers, Sequences, FiniteSets, TLC

\* ------------------------------------------------------------------ bounds

\* Longest text handed to from_str.
MaxLen == 3
\* Longest symbol sequence handed to the constructor.
MaxNew == 2
\* Largest materialized window (and cursor) a run of the model follows.
MaxTape == 5
\* The count of applied transitions is kept up to MaxSteps (it saturates).
MaxSteps == 3
\* Longest binary number handed to the increment program.
MaxBits == 3

\* Fields of a transition line drawn (five are needed).
MaxFields == 5

\* Lines of a program text drawn (the example texts are longer).
MaxLines == 3

\* Fields drawn after the fifth field of a transition line.
MaxExtra == 2

\* ------------------------------------------------------------------- state

VARIABLES
    backend,    \* "Vec" (VecTape) or "VecDeque" (VecDequeTape)
    tape_pc,    \* "idle": no tape; "call": a constructor call is pending;
                \* "ready": the tape exists; "error": from_str returned Err;
                \* "panicked"
    call,       \* the pending constructor call and its arguments
    origin,     \* which constructor built the tape: "none", "new", "from_str"
    inner,      \* the tape's field inner: the materialized segments
    position,   \* the tape's field position: the cursor, a usize
    read,       \* what the last call of current returned ("none" before)
    program,    \* the Program handed to execute
    exec_pc,    \* execute: "idle", "running", "returned", "panicked"
    state,      \* execute's local variable state
    result,     \* what execute returned
    steps,      \* transitions applied by this run, counted up to MaxSteps
    tape0,      \* the tape the machine was built from
    first,      \* the outcome of an earlier run on an equal tape
    parse_pc,   \* the parser: "idle", "call" (a from_str call is pending),
                \* "returned"
    source,     \* the text handed to Transition::from_str or Program::from_str
    parsed      \* what the parser returned

tape_vars == <<backend, tape_pc, call, origin, inner, position, read>>

exec_vars == <<program, exec_pc, state, result, steps, tape0, first>>

parse_vars == <<parse_pc, source, parsed>>

vars == <<backend, tape_pc, call, origin, inner, position, read,
          program, exec_pc, state, result, steps, tape0, first,
          parse_pc, source, parsed>>

\* ---------------------------------------------------------------- segments

Segment == {"Zero", "One", "Empty"}

\* The characters a text is drawn from: the four the tape syntax knows and
\* one it does not.
Chars == {"1", "0", "_", " ", "x"}

RECURSIVE SeqsOfLen(_, _)
SeqsOfLen(S, n) ==
    IF n = 0 THEN {<<>>}
    ELSE {Append(s, x) : s \in SeqsOfLen(S, n - 1), x \in S}

SeqsUpTo(S, n) == UNION {SeqsOfLen(S, k) : k \in 0..n}

\* -------------------------------------------------------------------- tape

Tape(i, p) == [inner |-> i, position |-> p]

\* The assertion lets the index one past the end through.
VecTape_new_asserts_le(i, p) == p <= Len(i)

\* assert!(position < inner.len())
VecTape_new_asserts(i, p) == p < Len(i)

VecDequeTape_new_asserts(i, p) == p < Len(i)

\* right without the push at the right edge.
VecTape_right_no_push(t) == Tape(t.inner, t.position + 1)

\* self.position += 1; if self.position == self.inner.len() { push(Empty) }
VecTape_right(t) ==
    LET p == t.position + 1
    IN  Tape(IF p = Len(t.inner) THEN Append(t.inner, "Empty") ELSE t.inner, p)

\* left pushes the new segment at the back instead of inserting it at 0.
VecTape_left_push_back(t) ==
    IF t.position = 0
    THEN Tape(Append(t.inner, "Empty"), t.position)
    ELSE Tape(t.inner, t.position - 1)

\* if self.position == 0 { insert(0, Empty) } else { self.position -= 1 }
VecTape_left(t) ==
    IF t.position = 0
    THEN Tape(<<"Empty">> \o t.inner, t.position)
    ELSE Tape(t.inner, t.position - 1)

\* Indexing self.inner[self.position] panics when the index is out of bounds.
VecTape_in_bounds(t) == t.position < Len(t.inner)

\* self.inner[self.position] = segment (0-based index position)
VecTape_put(t, segment) ==
    Tape([t.inner EXCEPT ![t.position + 1] = segment], t.position)

\* &self.inner[self.position]
VecTape_current(t) == t.inner[t.position + 1]

VecDequeTape_right(t) ==
    LET p == t.position + 1
    IN  Tape(IF p = Len(t.inner) THEN t.inner \o <<"Empty">> ELSE t.inner, p)

\* left uses push_back where it should use push_front.
VecDequeTape_left_push_back(t) ==
    IF t.position = 0
    THEN Tape(t.inner \o <<"Empty">>, t.position)
    ELSE Tape(t.inner, t.position - 1)

\* if self.position == 0 { push_front(Empty) } else { self.position -= 1 }
VecDequeTape_left(t) ==
    IF t.position = 0
    THEN Tape(<<"Empty">> \o t.inner, t.position)
    ELSE Tape(t.inner, t.position - 1)

VecDequeTape_in_bounds(t) == t.position < Len(t.inner)

VecDequeTape_put(t, segment) ==
    Tape([t.inner EXCEPT ![t.position + 1] = segment], t.position)

VecDequeTape_current(t) == t.inner[t.position + 1]

\* The loop of from_str: idx counts the characters consumed so far.
RECURSIVE VecTape_from_str_loop(_, _, _, _)
VecTape_from_str_loop(s, idx, i, p) ==
    IF idx = Len(s)
    THEN [ok |-> TRUE, inner |-> i, position |-> p]
    ELSE LET part == s[idx + 1]
         IN  IF part = "1"
             THEN VecTape_from_str_loop(s, idx + 1, Append(i, "One"),
                                        IF p = 0 THEN idx ELSE p)
             ELSE IF part = "0"
             THEN VecTape_from_str_loop(s, idx + 1, Append(i, "Zero"),
                                        IF p = 0 THEN idx ELSE p)
             ELSE IF part \in {"_", " "}
             THEN VecTape_from_str_loop(s, idx + 1, Append(i, "Empty"), p)
             ELSE [ok |-> FALSE, inner |-> <<>>, position |-> 0]

VecTape_from_str(s) == VecTape_from_str_loop(s, 0, <<>>, 0)

RECURSIVE VecDequeTape_from_str_loop(_, _, _, _)
VecDequeTape_from_str_loop(s, idx, i, p) ==
    IF idx = Len(s)
    THEN [ok |-> TRUE, inner |-> i, position |-> p]
    ELSE LET part == s[idx + 1]
         IN  IF part = "1"
             THEN VecDequeTape_from_str_loop(s, idx + 1, i \o <<"One">>,
                                             IF p = 0 THEN idx ELSE p)
             ELSE IF part = "0"
             THEN VecDequeTape_from_str_loop(s, idx + 1, i \o <<"Zero">>,
                                             IF p = 0 THEN idx ELSE p)
             ELSE IF part \in {"_", " "}
             THEN VecDequeTape_from_str_loop(s, idx + 1, i \o <<"Empty">>, p)
             ELSE [ok |-> FALSE, inner |-> <<>>, position |-> 0]

VecDequeTape_from_str(s) == VecDequeTape_from_str_loop(s, 0, <<>>, 0)

\* Display writes Zero as the blank character.
VecTape_fmt_zero_blank(t) ==
    [k \in 1..Len(t.inner) |-> IF t.inner[k] = "One" THEN "1" ELSE "_"]

\* fmt: write_char('1'), ('0') or ('_') for each segment of inner, in order
VecTape_fmt(t) ==
    [k \in 1..Len(t.inner) |->
        IF t.inner[k] = "One" THEN "1"
        ELSE IF t.inner[k] = "Zero" THEN "0"
        ELSE "_"]

VecDequeTape_fmt(t) ==
    [k \in 1..Len(t.inner) |->
        IF t.inner[k] = "One" THEN "1"
        ELSE IF t.inner[k] = "Zero" THEN "0"
        ELSE "_"]

\* The Tape trait, dispatched on the backend.
Tape_fmt(b, t) == IF b = "Vec" THEN VecTape_fmt(t) ELSE VecDequeTape_fmt(t)

Tape_new_asserts(b, i, p) ==
    IF b = "Vec" THEN VecTape_new_asserts(i, p) ELSE VecDequeTape_new_asserts(i, p)

Tape_from_str(b, s) ==
    IF b = "Vec" THEN VecTape_from_str(s) ELSE VecDequeTape_from_str(s)

Tape_right(b, t) == IF b = "Vec" THEN VecTape_right(t) ELSE VecDequeTape_right(t)

Tape_left(b, t) == IF b = "Vec" THEN VecTape_left(t) ELSE VecDequeTape_left(t)

Tape_in_bounds(b, t) ==
    IF b = "Vec" THEN VecTape_in_bounds(t) ELSE VecDequeTape_in_bounds(t)

Tape_put(b, t, segment) ==
    IF b = "Vec" THEN VecTape_put(t, segment) ELSE VecDequeTape_put(t, segment)

Tape_current(b, t) ==
    IF b = "Vec" THEN VecTape_current(t) ELSE VecDequeTape_current(t)

\* The tape as the state holds it.
tape == Tape(inner, position)

\* The model follows a tape while its window and cursor stay within MaxTape.
Followed(t) == Len(t.inner) <= MaxTape /\ t.position <= MaxTape

\* ----------------------------------------------------------------- program

Move == {"Left", "Right", "Nothing"}

\* struct Transition
Transition(from, to, condition, write, action) ==
    [from |-> from, to |-> to, condition |-> condition, write |-> write,
     action |-> action]

\* struct Program; transitions is the HashMap keyed by (State, Segment).
Program(initial_state, final_states, error_states, transitions) ==
    [initial_state |-> initial_state, final_states |-> final_states,
     error_states |-> error_states, transitions |-> transitions]

\* The table that inserting each transition of ts under (from, condition)
\* builds; the transitions of ts have distinct keys.
TableOf(ts) ==
    [k \in {<<t.from, t.condition>> : t \in ts} |->
        CHOOSE t \in ts : <<t.from, t.condition>> = k]

\* The program of the documentation of struct Program: it adds 1 to a binary
\* number that has empty segments at its sides.
IncrementTransitions ==
    { Transition(0, 0, "Zero", "Zero", "Right"),
      Transition(0, 0, "One", "One", "Right"),
      Transition(0, 1, "Empty", "Empty", "Left"),
      Transition(1, 2, "Zero", "One", "Left"),
      Transition(1, 1, "One", "Zero", "Left"),
      Transition(1, 3, "Empty", "One", "Nothing"),
      Transition(2, 2, "Zero", "Zero", "Left"),
      Transition(2, 2, "One", "One", "Left"),
      Transition(2, 3, "Empty", "Empty", "Right") }

\* The carry stops one bit early: 1,1,1,0,l goes to state 2.
IncrementProgram_short_carry ==
    Program(0, {3}, {},
            TableOf((IncrementTransitions
                        \ {Transition(1, 1, "One", "Zero", "Left")})
                    \cup {Transition(1, 2, "One", "Zero", "Left")}))

IncrementProgram == Program(0, {3}, {}, TableOf(IncrementTransitions))

\* The states the drawn programs use.
ProgStates == {0, 1}

\* The segments the drawn programs match and write.  execute treats the
\* three segments alike; IncrementProgram and the tapes bring in "Zero".
ProgSegments == {"One", "Empty"}

\* The transitions a drawn program may hold.
ProgTransitions ==
    {Transition(f, t, c, w, a) :
        f \in ProgStates, t \in ProgStates, c \in ProgSegments,
        w \in ProgSegments, a \in Move}

\* The tables of the drawn programs: no entry, one entry, or two entries
\* with different keys.
ProgTables ==
    {TableOf({})} \cup {TableOf({t}) : t \in ProgTransitions}
    \cup UNION {{TableOf({t, u}) :
                    u \in {v \in ProgTransitions :
                             <<v.from, v.condition>> # <<t.from, t.condition>>}} :
                t \in ProgTransitions}

\* The drawn programs: any table of ProgTables, any sets of final and of error
\* states (disjoint or not), and state 0 or 1 to start in.
Programs ==
    {Program(i, f, e, tr) :
        i \in ProgStates, f \in SUBSET ProgStates, e \in SUBSET ProgStates,
        tr \in ProgTables}

NoProgram == Program(0, {}, {}, TableOf({}))

\* enum ExecutionError, and the Ok of execute's Result
NoResult == [kind |-> "none", state |-> 0, segment |-> "none"]

Ok(s) == [kind |-> "Ok", state |-> s, segment |-> "none"]

UndefinedBehavior(s, c) ==
    [kind |-> "UndefinedBehavior", state |-> s, segment |-> c]

ReachedError(s) == [kind |-> "ReachedError", state |-> s, segment |-> "none"]

NoFirst == [result |-> NoResult, inner |-> <<>>, position |-> 0, run |-> 1]

\* ------------------------------------------------------------------ parser

\* Result<_, InvalidProgram>
ParseOk(v) == [ok |-> TRUE, value |-> v]

ParseErr(e) == [ok |-> FALSE, err |-> e]

NoSource == [kind |-> "none", pieces |-> <<>>, text |-> <<>>]

NoParse == ParseErr("none")

Digit == {"0", "1", "2", "3", "4", "5", "6", "7", "8", "9"}

DigitValue(c) ==
    CASE c = "0" -> 0 [] c = "1" -> 1 [] c = "2" -> 2 [] c = "3" -> 3
      [] c = "4" -> 4 [] c = "5" -> 5 [] c = "6" -> 6 [] c = "7" -> 7
      [] c = "8" -> 8 [] c = "9" -> 9

RECURSIVE DecimalValue(_)
DecimalValue(d) ==
    IF d = <<>>
    THEN 0
    ELSE 10 * DecimalValue(SubSeq(d, 1, Len(d) - 1)) + DigitValue(d[Len(d)])

\* s.parse() of a usize: an optional "+", then one digit or more. The texts
\* drawn here are far too short to overflow a usize.
\* .map_or_else(|_| Err(InvalidState), |v| Ok(Self(v)))
State_from_str(s) ==
    LET d == IF s # <<>> /\ s[1] = "+" THEN Tail(s) ELSE s
    IN  IF d = <<>> \/ \E k \in 1..Len(d) : d[k] \notin Digit
        THEN ParseErr("InvalidState")
        ELSE ParseOk(DecimalValue(d))

\* match s { "1" => One, "0" => Zero, "_" | " " => Empty, _ => Err }
Segment_from_str(s) ==
    CASE s = <<"1">> -> ParseOk("One")
      [] s = <<"0">> -> ParseOk("Zero")
      [] s = <<"_">> \/ s = <<" ">> -> ParseOk("Empty")
      [] OTHER -> ParseErr("InvalidSegment")

\* The empty field is rejected.
Move_from_str_no_empty(s) ==
    CASE s = <<"r">> \/ s = <<"R">> -> ParseOk("Right")
      [] s = <<"l">> \/ s = <<"L">> -> ParseOk("Left")
      [] s = <<"n">> \/ s = <<"N">> \/ s = <<"_">> \/ s = <<" ">> ->
            ParseOk("Nothing")
      [] OTHER -> ParseErr("InvalidAction")

\* match s { "r" | "R" => Right, "l" | "L" => Left,
\*           "n" | "N" | "" | "_" | " " => Nothing, _ => Err(InvalidAction) }
Move_from_str(s) ==
    CASE s = <<"r">> \/ s = <<"R">> -> ParseOk("Right")
      [] s = <<"l">> \/ s = <<"L">> -> ParseOk("Left")
      [] s = <<"n">> \/ s = <<"N">> \/ s = <<>> \/ s = <<"_">> \/ s = <<" ">> ->
            ParseOk("Nothing")
      [] OTHER -> ParseErr("InvalidAction")

\* Empty pieces are left out, so that a text may have no piece at all.
RECURSIVE Split_skip_empty(_, _)
Split_skip_empty(s, sep) ==
    IF \A k \in 1..Len(s) : s[k] # sep
    THEN IF s = <<>> THEN <<>> ELSE <<s>>
    ELSE LET i == CHOOSE k \in 1..Len(s) :
                     s[k] = sep /\ \A j \in 1..(k - 1) : s[j] # sep
         IN  (IF i = 1 THEN <<>> ELSE <<SubSeq(s, 1, i - 1)>>)
                \o Split_skip_empty(SubSeq(s, i + 1, Len(s)), sep)

\* s.split(sep): the pieces between the separators, always one at least.
RECURSIVE Split(_, _)
Split(s, sep) ==
    IF \A k \in 1..Len(s) : s[k] # sep
    THEN <<s>>
    ELSE LET i == CHOOSE k \in 1..Len(s) :
                     s[k] = sep /\ \A j \in 1..(k - 1) : s[j] # sep
         IN  <<SubSeq(s, 1, i - 1)>> \o Split(SubSeq(s, i + 1, Len(s)), sep)

\* s.lines(): the pieces that "\n" ends, each without one "\r" before its
\* "\n", and what follows the last "\n" if that is not empty.
Lines(s) ==
    LET pieces == Split(s, "\n")
        n == Len(pieces)
        strip(l) == IF l # <<>> /\ l[Len(l)] = "\r"
                    THEN SubSeq(l, 1, Len(l) - 1)
                    ELSE l
        ended == [k \in 1..(n - 1) |-> strip(pieces[k])]
    IN  IF pieces[n] = <<>> THEN ended ELSE ended \o <<pieces[n]>>

\* The action is read from the last field of the line.
Transition_from_str_last_is_action(s) ==
    LET parts == Split(s, ",")
        n == Len(parts)
        from == State_from_str(parts[1])
        to == State_from_str(parts[2])
        condition == Segment_from_str(parts[3])
        write == Segment_from_str(parts[4])
        action == Move_from_str(parts[n])
    IN  IF n < 1 THEN ParseErr("MissingFrom")
        ELSE IF n < 2 THEN ParseErr("MissingTo")
        ELSE IF n < 3 THEN ParseErr("MissingCondition")
        ELSE IF n < 4 THEN ParseErr("MissingWrite")
        ELSE IF n < 5 THEN ParseErr("MissingAction")
        ELSE IF ~from.ok THEN from
        ELSE IF ~to.ok THEN to
        ELSE IF ~condition.ok THEN condition
        ELSE IF ~write.ok THEN write
        ELSE IF ~action.ok THEN action
        ELSE ParseOk(Transition(from.value, to.value, condition.value,
                                write.value, action.value))

\* Content validation comes first; a missing field is seen only after it.
Transition_from_str_content_first(s) ==
    LET parts == Split(s, ",")
        n == Len(parts)
        from == State_from_str(parts[1])
        to == State_from_str(parts[2])
        condition == Segment_from_str(parts[3])
        write == Segment_from_str(parts[4])
        action == Move_from_str(parts[5])
    IN  IF n < 1 THEN ParseErr("MissingFrom")
        ELSE IF ~from.ok THEN from
        ELSE IF n < 2 THEN ParseErr("MissingTo")
        ELSE IF ~to.ok THEN to
        ELSE IF n < 3 THEN ParseErr("MissingCondition")
        ELSE IF ~condition.ok THEN condition
        ELSE IF n < 4 THEN ParseErr("MissingWrite")
        ELSE IF ~write.ok THEN write
        ELSE IF n < 5 THEN ParseErr("MissingAction")
        ELSE IF ~action.ok THEN action
        ELSE ParseOk(Transition(from.value, to.value, condition.value,
                                write.value, action.value))

\* Five times parts.next().ok_or(Missing*)?, then the five from_str(..)? of
\* the struct literal, in the order of its fields.
Transition_from_str(s) ==
    LET parts == Split(s, ",")
        n == Len(parts)
        from == State_from_str(parts[1])
        to == State_from_str(parts[2])
        condition == Segment_from_str(parts[3])
        write == Segment_from_str(parts[4])
        action == Move_from_str(parts[5])
    IN  IF n < 1 THEN ParseErr("MissingFrom")
        ELSE IF n < 2 THEN ParseErr("MissingTo")
        ELSE IF n < 3 THEN ParseErr("MissingCondition")
        ELSE IF n < 4 THEN ParseErr("MissingWrite")
        ELSE IF n < 5 THEN ParseErr("MissingAction")
        ELSE IF ~from.ok THEN from
        ELSE IF ~to.ok THEN to
        ELSE IF ~condition.ok THEN condition
        ELSE IF ~write.ok THEN write
        ELSE IF ~action.ok THEN action
        ELSE ParseOk(Transition(from.value, to.value, condition.value,
                                write.value, action.value))

\* The entry of a key already in the map is kept.
HashMap_insert_keep_first(m, key, v) ==
    [k \in DOMAIN m \cup {key} |-> IF k \in DOMAIN m THEN m[k] ELSE v]

\* transitions.insert(key, v): the entry of key is v from now on.
HashMap_insert(m, key, v) ==
    [k \in DOMAIN m \cup {key} |-> IF k = key THEN v ELSE m[k]]

\* Option<State>
None == [some |-> FALSE, value |-> 0]

Some(v) == [some |-> TRUE, value |-> v]

\* The locals of Program::from_str before its loop.
NoParts ==
    [initial_state |-> None, final_states |-> {}, error_states |-> {},
     transitions |-> TableOf({})]

\* The end of Program::from_str with the check of initial_state left out.
Program_from_parts_default(acc) ==
    ParseOk(Program(acc.initial_state.value, acc.final_states,
                    acc.error_states, acc.transitions))

\* Ok(Self::from_parts(initial_state.ok_or(MissingInitialState)?, ..))
Program_from_parts(acc) ==
    IF acc.initial_state.some
    THEN ParseOk(Program(acc.initial_state.value, acc.final_states,
                         acc.error_states, acc.transitions))
    ELSE ParseErr("MissingInitialState")

\* An invalid line is skipped like a comment.
RECURSIVE Program_from_str_loop_skips(_, _)
Program_from_str_loop_skips(lines, acc) ==
    IF lines = <<>>
    THEN Program_from_parts(acc)
    ELSE LET line == Head(lines)
             rest == Tail(lines)
             st == State_from_str(Tail(line))
             tr == Transition_from_str(line)
         IN  IF line = <<>> \/ line[1] = "#" \/ line[1] = "/"
             THEN Program_from_str_loop_skips(rest, acc)
             ELSE IF line[1] \in {"+", "-", "!"} /\ ~st.ok
             THEN Program_from_str_loop_skips(rest, acc)
             ELSE IF line[1] = "+"
             THEN Program_from_str_loop_skips(rest,
                      [acc EXCEPT !.initial_state = Some(st.value)])
             ELSE IF line[1] = "-"
             THEN Program_from_str_loop_skips(rest,
                      [acc EXCEPT !.final_states = @ \cup {st.value}])
             ELSE IF line[1] = "!"
             THEN Program_from_str_loop_skips(rest,
                      [acc EXCEPT !.error_states = @ \cup {st.value}])
             ELSE IF ~tr.ok
             THEN Program_from_str_loop_skips(rest, acc)
             ELSE Program_from_str_loop_skips(rest,
                      [acc EXCEPT !.transitions =
                          HashMap_insert(@, <<tr.value.from,
                                              tr.value.condition>>, tr.value)])

\* for line in s.lines() { .. }: a comment or an empty line is skipped, a
\* line of "+", "-" or "!" gives a state, any other line a transition, and
\* the first Err of a line is what from_str returns.
RECURSIVE Program_from_str_loop(_, _)
Program_from_str_loop(lines, acc) ==
    IF lines = <<>>
    THEN Program_from_parts(acc)
    ELSE LET line == Head(lines)
             rest == Tail(lines)
             st == State_from_str(Tail(line))
             tr == Transition_from_str(line)
         IN  IF line = <<>> \/ line[1] = "#" \/ line[1] = "/"
             THEN Program_from_str_loop(rest, acc)
             ELSE IF line[1] \in {"+", "-", "!"} /\ ~st.ok
             THEN st
             ELSE IF line[1] = "+"
             THEN Program_from_str_loop(rest,
                      [acc EXCEPT !.initial_state = Some(st.value)])
             ELSE IF line[1] = "-"
             THEN Program_from_str_loop(rest,
                      [acc EXCEPT !.final_states = @ \cup {st.value}])
             ELSE IF line[1] = "!"
             THEN Program_from_str_loop(rest,
                      [acc EXCEPT !.error_states = @ \cup {st.value}])
             ELSE IF ~tr.ok
             THEN tr
             ELSE Program_from_str_loop(rest,
                      [acc EXCEPT !.transitions =
                          HashMap_insert(@, <<tr.value.from,
                                              tr.value.condition>>, tr.value)])

\* impl FromStr for Program
Program_from_str(s) == Program_from_str_loop(Lines(s), NoParts)

\* ----------------------------------------------------------------- execute

\* program.transitions.get(&(state, *current)) is Some
HasTransition(p, s, c) == <<s, c>> \in DOMAIN p.transitions

GetTransition(p, s, c) == p.transitions[<<s, c>>]

\* match transition.action { Left => left(), Right => right(), Nothing => {} }
DoAction(b, t, action) ==
    IF action = "Left" THEN Tape_left(b, t)
    ELSE IF action = "Right" THEN Tape_right(b, t)
    ELSE t

\* The cursor moves before the segment is written.
WriteAndMove_move_first(b, t, transition) ==
    Tape_put(b, DoAction(b, t, transition.action), transition.write)

\* self.tape.put(transition.write); then the match on transition.action
WriteAndMove(b, t, transition) ==
    DoAction(b, Tape_put(b, t, transition.write), transition.action)

\* The state is left as it was.
NextState_from(transition) == transition.from

\* state = transition.to
NextState(transition) == transition.to

\* The error check is left out.
Outcome_no_error(p, s) == IF s \in p.final_states THEN "Ok" ELSE "continue"

\* error_states is asked first.
Outcome_error_first(p, s) ==
    IF s \in p.error_states THEN "ReachedError"
    ELSE IF s \in p.final_states THEN "Ok"
    ELSE "continue"

\* The return of ReachedError is not guarded by the membership test.
Outcome_always_ends(p, s) ==
    IF s \in p.final_states THEN "Ok" ELSE "ReachedError"

\* The checks after state = transition.to: final_states is asked first.
Outcome(p, s) ==
    IF s \in p.final_states THEN "Ok"
    ELSE IF s \in p.error_states THEN "ReachedError"
    ELSE "continue"

\* The transition taken is removed from the table.
ProgramAfter_consumes(p, s, c) ==
    [p EXCEPT !.transitions =
        [k \in DOMAIN p.transitions \ {<<s, c>>} |-> p.transitions[k]]]

\* What one iteration of the loop leaves of the Program: execute borrows it
\* as &Program and only reads it.
ProgramAfter(p, s, c) == p

\* ------------------------------------------------- the tape's operations

NoCall == [kind |-> "none", inner |-> <<>>, position |-> 0, text |-> <<>>]

NewCalls ==
    {[kind |-> "new", inner |-> i, position |-> p, text |-> <<>>] :
        i \in SeqsUpTo(Segment, MaxNew), p \in 0..MaxNew}

FromStrCalls ==
    {[kind |-> "from_str", inner |-> <<>>, position |-> 0, text |-> s] :
        s \in SeqsUpTo(Chars, MaxLen)}

Init ==
    /\ backend \in {"Vec", "VecDeque"}
    /\ call \in NewCalls \cup FromStrCalls
    /\ tape_pc = "call"
    /\ origin = "none"
    /\ inner = <<>>
    /\ position = 0
    /\ read = "none"
    /\ program = NoProgram
    /\ exec_pc = "idle"
    /\ state = 0
    /\ result = NoResult
    /\ steps = 0
    /\ tape0 = Tape(<<>>, 0)
    /\ first = NoFirst
    /\ parse_pc = "idle"
    /\ source = NoSource
    /\ parsed = NoParse

\* VecTape::new / VecDequeTape::new
New ==
    /\ tape_pc = "call"
    /\ call.kind = "new"
    /\ IF Tape_new_asserts(backend, call.inner, call.position)
       THEN /\ tape_pc' = "ready"
            /\ inner' = call.inner
            /\ position' = call.position
       ELSE /\ tape_pc' = "panicked"
            /\ UNCHANGED <<inner, position>>
    /\ origin' = "new"
    /\ call' = NoCall
    /\ UNCHANGED <<backend, read>>
    /\ UNCHANGED exec_vars
    /\ UNCHANGED parse_vars

\* VecTape::from_str / VecDequeTape::from_str
FromStr ==
    /\ tape_pc = "call"
    /\ call.kind = "from_str"
    /\ LET r == Tape_from_str(backend, call.text)
       IN  IF r.ok
           THEN /\ tape_pc' = "ready"
                /\ inner' = r.inner
                /\ position' = r.position
           ELSE /\ tape_pc' = "error"
                /\ UNCHANGED <<inner, position>>
    /\ origin' = IF origin = "none" THEN "from_str" ELSE "round_trip"
    /\ call' = NoCall
    /\ UNCHANGED <<backend, read>>
    /\ UNCHANGED exec_vars
    /\ UNCHANGED parse_vars

Right ==
    /\ tape_pc = "ready"
    /\ LET t == Tape_right(backend, tape)
       IN  /\ Followed(t)
           /\ inner' = t.inner
           /\ position' = t.position
    /\ UNCHANGED <<backend, tape_pc, call, origin, read>>
    /\ UNCHANGED exec_vars
    /\ UNCHANGED parse_vars

Left ==
    /\ tape_pc = "ready"
    /\ LET t == Tape_left(backend, tape)
       IN  /\ Followed(t)
           /\ inner' = t.inner
           /\ position' = t.position
    /\ UNCHANGED <<backend, tape_pc, call, origin, read>>
    /\ UNCHANGED exec_vars
    /\ UNCHANGED parse_vars

Put ==
    /\ tape_pc = "ready"
    /\ \E segment \in Segment :
          IF Tape_in_bounds(backend, tape)
          THEN /\ inner' = Tape_put(backend, tape, segment).inner
               /\ UNCHANGED tape_pc
          ELSE /\ tape_pc' = "panicked"
               /\ UNCHANGED inner
    /\ UNCHANGED <<backend, call, origin, position, read>>
    /\ UNCHANGED exec_vars
    /\ UNCHANGED parse_vars

Current ==
    /\ tape_pc = "ready"
    /\ IF Tape_in_bounds(backend, tape)
       THEN /\ read' = Tape_current(backend, tape)
            /\ UNCHANGED tape_pc
       ELSE /\ tape_pc' = "panicked"
            /\ UNCHANGED read
    /\ UNCHANGED <<backend, call, origin, inner, position>>
    /\ UNCHANGED exec_vars
    /\ UNCHANGED parse_vars

\* The tape is rendered by Display (to_string), and the text is about to be
\* handed to from_str of the same backend.
Display ==
    /\ tape_pc = "ready"
    /\ origin # "round_trip"
    /\ call' = [kind |-> "from_str", inner |-> <<>>, position |-> 0,
                text |-> Tape_fmt(backend, tape)]
    /\ tape_pc' = "call"
    /\ UNCHANGED <<backend, origin, inner, position, read>>
    /\ UNCHANGED exec_vars
    /\ UNCHANGED parse_vars

Next == New \/ FromStr \/ Right \/ Left \/ Put \/ Current \/ Display

Spec == Init /\ [][Next]_vars

\* ------------------------------------------- the machine and its execute

\* The tapes a machine is built from: what the constructor and from_str
\* return on the calls drawn.
ExecTexts == {<<>>, <<"_", "1", "_">>}

ExecNewCalls ==
    {c \in NewCalls :
        <<c.inner, c.position>> \in
            { <<<<"Empty">>, 0>>, <<<<"One">>, 0>>, <<<<"Zero">>, 0>>,
              <<<<"One", "Empty">>, 0>>, <<<<"Empty", "One">>, 1>>,
              <<<<"One", "One">>, 1>> }}

ExecTapes(b) ==
    {[origin |-> "new", tape |-> Tape(c.inner, c.position)] :
        c \in {d \in ExecNewCalls : Tape_new_asserts(b, d.inner, d.position)}}
    \cup
    {[origin |-> "from_str",
      tape |-> Tape(Tape_from_str(b, s).inner, Tape_from_str(b, s).position)] :
        s \in {x \in ExecTexts : Tape_from_str(b, x).ok}}

InitMachine(progs) ==
    /\ backend \in {"Vec", "VecDeque"}
    /\ \E ot \in ExecTapes(backend) :
          /\ origin = ot.origin
          /\ inner = ot.tape.inner
          /\ position = ot.tape.position
          /\ tape0 = ot.tape
    /\ tape_pc = "ready"
    /\ call = NoCall
    /\ read = "none"
    /\ program \in progs
    /\ exec_pc = "idle"
    /\ state = 0
    /\ result = NoResult
    /\ steps = 0
    /\ first = NoFirst
    /\ parse_pc = "idle"
    /\ source = NoSource
    /\ parsed = NoParse

InitExec == InitMachine(Programs \cup {IncrementProgram})

\* The initial state is tested for termination before the loop.
Execute_checks_initial ==
    /\ exec_pc = "idle"
    /\ tape_pc = "ready"
    /\ LET o == Outcome(program, program.initial_state)
       IN  /\ exec_pc' = IF o = "continue" THEN "running" ELSE "returned"
           /\ result' = IF o = "Ok" THEN Ok(program.initial_state)
                        ELSE IF o = "ReachedError"
                        THEN ReachedError(program.initial_state)
                        ELSE result
    /\ state' = program.initial_state
    /\ steps' = 0
    /\ UNCHANGED <<tape_vars, program, tape0, first>>
    /\ UNCHANGED parse_vars

\* let mut state = program.initial_state;
Execute ==
    /\ exec_pc = "idle"
    /\ tape_pc = "ready"
    /\ exec_pc' = "running"
    /\ state' = program.initial_state
    /\ steps' = 0
    /\ UNCHANGED <<tape_vars, program, result, tape0, first>>
    /\ UNCHANGED parse_vars

\* self.tape.current() with the cursor outside the window
ExecutePanic ==
    /\ exec_pc = "running"
    /\ ~Tape_in_bounds(backend, tape)
    /\ exec_pc' = "panicked"
    /\ UNCHANGED <<tape_vars, program, state, result, steps, tape0, first>>
    /\ UNCHANGED parse_vars

\* The failing iteration puts the tape back to what the run started from.
ExecuteUndefined_rollback ==
    /\ exec_pc = "running"
    /\ Tape_in_bounds(backend, tape)
    /\ LET current == Tape_current(backend, tape)
       IN  /\ ~HasTransition(program, state, current)
           /\ result' = UndefinedBehavior(state, current)
           /\ read' = current
    /\ exec_pc' = "returned"
    /\ inner' = tape0.inner
    /\ position' = tape0.position
    /\ UNCHANGED <<backend, tape_pc, call, origin>>
    /\ UNCHANGED <<program, state, steps, tape0, first>>
    /\ UNCHANGED parse_vars

\* The error carries the initial state instead of the current one.
ExecuteUndefined_initial ==
    /\ exec_pc = "running"
    /\ Tape_in_bounds(backend, tape)
    /\ LET current == Tape_current(backend, tape)
       IN  /\ ~HasTransition(program, state, current)
           /\ result' = UndefinedBehavior(program.initial_state, current)
           /\ read' = current
    /\ exec_pc' = "returned"
    /\ UNCHANGED <<backend, tape_pc, call, origin, inner, position>>
    /\ UNCHANGED <<program, state, steps, tape0, first>>
    /\ UNCHANGED parse_vars

\* One iteration of the loop that finds no transition.
ExecuteUndefined ==
    /\ exec_pc = "running"
    /\ Tape_in_bounds(backend, tape)
    /\ LET current == Tape_current(backend, tape)
       IN  /\ ~HasTransition(program, state, current)
           /\ result' = UndefinedBehavior(state, current)
           /\ read' = current
    /\ exec_pc' = "returned"
    /\ UNCHANGED <<backend, tape_pc, call, origin, inner, position>>
    /\ UNCHANGED <<program, state, steps, tape0, first>>
    /\ UNCHANGED parse_vars

\* One iteration of the loop that finds a transition: put, move, the new
\* state, and the checks that end the run.
ExecuteStep ==
    /\ exec_pc = "running"
    /\ Tape_in_bounds(backend, tape)
    /\ LET current == Tape_current(backend, tape)
       IN  /\ HasTransition(program, state, current)
           /\ LET transition == GetTransition(program, state, current)
                  t == WriteAndMove(backend, tape, transition)
                  to == NextState(transition)
                  o == Outcome(program, to)
              IN  /\ Followed(t)
                  /\ inner' = t.inner
                  /\ position' = t.position
                  /\ state' = to
                  /\ exec_pc' = IF o = "continue" THEN "running" ELSE "returned"
                  /\ result' = IF o = "Ok" THEN Ok(to)
                               ELSE IF o = "ReachedError" THEN ReachedError(to)
                               ELSE result
           /\ read' = current
           /\ program' = ProgramAfter(program, state, current)
    /\ steps' = IF steps < MaxSteps THEN steps + 1 ELSE steps
    /\ UNCHANGED <<backend, tape_pc, call, origin, tape0, first>>
    /\ UNCHANGED parse_vars

NextExec == Execute \/ ExecutePanic \/ ExecuteUndefined \/ ExecuteStep

SpecExec == InitExec /\ [][NextExec]_vars

\* A second machine, built from a tape equal to the first one's, is about to
\* run the same Program; the first run's outcome is kept to compare with.
Rerun ==
    /\ exec_pc = "returned"
    /\ first.run = 1
    /\ first' = [result |-> result, inner |-> inner, position |-> position,
                 run |-> 2]
    /\ inner' = tape0.inner
    /\ position' = tape0.position
    /\ exec_pc' = "idle"
    /\ result' = NoResult
    /\ state' = 0
    /\ steps' = 0
    /\ read' = "none"
    /\ UNCHANGED <<backend, tape_pc, call, origin, program, tape0>>
    /\ UNCHANGED parse_vars

NextRerun == NextExec \/ Rerun

SpecRerun == InitExec /\ [][NextRerun]_vars

\* The increment program, whole or with one of its transitions left out, on
\* the tapes parsed from the texts over 1, 0 and _ that hold up to MaxBits
\* characters between two more.  execute runs to its return without being
\* suspended, hence the fairness.
IncChars == {"1", "0", "_"}

IncTexts == SeqsUpTo(IncChars, MaxBits + 2)

IncPrograms ==
    {IncrementProgram} \cup
    {Program(0, {3}, {}, TableOf(IncrementTransitions \ {t})) :
        t \in IncrementTransitions}

InitInc ==
    /\ backend \in {"Vec", "VecDeque"}
    /\ \E s \in IncTexts :
          LET r == Tape_from_str(backend, s)
          IN  /\ r.ok
              /\ inner = r.inner
              /\ position = r.position
              /\ tape0 = Tape(r.inner, r.position)
    /\ origin = "from_str"
    /\ tape_pc = "ready"
    /\ call = NoCall
    /\ read = "none"
    /\ program \in IncPrograms
    /\ exec_pc = "idle"
    /\ state = 0
    /\ result = NoResult
    /\ steps = 0
    /\ first = NoFirst
    /\ parse_pc = "idle"
    /\ source = NoSource
    /\ parsed = NoParse

SpecInc == InitInc /\ [][NextExec]_vars /\ WF_vars(NextExec)

\* --------------------------------------------------- the parser's calls

RECURSIVE Join(_, _)
Join(pieces, sep) ==
    IF Len(pieces) = 0 THEN <<>>
    ELSE IF Len(pieces) = 1 THEN pieces[1]
    ELSE pieces[1] \o <<sep>> \o Join(Tail(pieces), sep)

\* What a field of a transition line is drawn from: empty, states, segments,
\* a move, a state with a sign, and a text that is none of these.
FieldTexts ==
    { <<>>,
      <<"0">>,
      <<"1">>,
      <<"_">>,
      <<"r">>,
      <<"x">>,
      <<"+", "1">> }

\* What a field after the fifth is drawn from: empty, and a text that no
\* field accepts.
ExtraTexts == { <<>>, <<"x">> }

\* The lines of the examples and two lines of six fields, as their fields.
ExampleFields ==
    { <<<<"1">>, <<"2">>, <<"3">>>>,
      <<<<"x">>, <<"y">>, <<"z">>>>,
      <<<<"1">>, <<"2">>, <<"0">>, <<"1">>, <<>>>>,
      <<<<"1">>, <<"2">>, <<"0">>, <<"1">>>>,
      <<<<"0">>, <<"1">>, <<"_">>, <<"1">>, <<"r">>, <<"x">>>>,
      <<<<"0">>, <<"x">>, <<"_">>, <<"1">>, <<"r">>, <<"x">>>> }

\* A call of Transition::from_str on the line of the fields fs.
TransitionCall(fs) ==
    [kind |-> "transition", pieces |-> fs, text |-> Join(fs, ",")]

\* The lines a program text is drawn from: an empty line and comments,
\* initial, final and error states, transitions (two of them under the key
\* of state 0 and the empty segment), and lines that are invalid in
\* different ways.
ProgramLines ==
    { <<>>,
      <<"#", "c">>,
      <<"/", "c">>,
      <<"+", "0">>,
      <<"+", "1">>,
      <<"+", "x">>,
      <<"-", "1">>,
      <<"!", "1">>,
      <<"0", ",", "1", ",", "_", ",", "1", ",", "r">>,
      <<"0", ",", "0", ",", " ", ",", "0", ",", "l">>,
      <<"1", ",", "0", ",", "1", ",", "1", ",", "n">>,
      <<"0", ",", "1", ",", "_">>,
      <<"0", ",", "1", ",", "x", ",", "1", ",", "r">>,
      <<"x">> }

\* Texts of four lines: initial states and transitions of one key given
\* twice, in one order and in the other.
ExampleLines ==
    { << <<"+", "0">>,
         <<"0", ",", "1", ",", "_", ",", "1", ",", "r">>,
         <<"+", "1">>,
         <<"0", ",", "0", ",", " ", ",", "0", ",", "l">> >>,
      << <<"+", "1">>,
         <<"0", ",", "0", ",", " ", ",", "0", ",", "l">>,
         <<"+", "0">>,
         <<"0", ",", "1", ",", "_", ",", "1", ",", "r">> >> }

\* A call of Program::from_str on the text of the lines ls.
ProgramCall(ls) ==
    [kind |-> "program", pieces |-> ls, text |-> Join(ls, "\n")]

InitParse ==
    /\ backend = "Vec"
    /\ call = NoCall
    /\ tape_pc = "idle"
    /\ origin = "none"
    /\ inner = <<>>
    /\ position = 0
    /\ read = "none"
    /\ program = NoProgram
    /\ exec_pc = "idle"
    /\ state = 0
    /\ result = NoResult
    /\ steps = 0
    /\ tape0 = Tape(<<>>, 0)
    /\ first = NoFirst
    /\ parse_pc = "call"
    /\ \/ \E fs \in ExampleFields : source = TransitionCall(fs)
       \/ \E k \in 1..MaxFields : \E fs \in [1..k -> FieldTexts] :
             source = TransitionCall(fs)
       \/ \E fs \in [1..5 -> FieldTexts] :
             \E k \in 1..MaxExtra : \E ex \in [1..k -> ExtraTexts] :
                source = TransitionCall(fs \o ex)
       \/ \E k \in 0..MaxLines : \E ls \in [1..k -> ProgramLines] :
             source = ProgramCall(ls)
       \/ \E ls \in ExampleLines : source = ProgramCall(ls)
    /\ parsed = NoParse

\* Transition::from_str(text)
ParseTransition ==
    /\ parse_pc = "call"
    /\ source.kind = "transition"
    /\ parsed' = Transition_from_str(source.text)
    /\ parse_pc' = "returned"
    /\ UNCHANGED source
    /\ UNCHANGED <<tape_vars, exec_vars>>

\* Program::from_str(text)
ParseProgram ==
    /\ parse_pc = "call"
    /\ source.kind = "program"
    /\ parsed' = Program_from_str(source.text)
    /\ parse_pc' = "returned"
    /\ UNCHANGED source
    /\ UNCHANGED <<tape_vars, exec_vars>>

NextParse == ParseTransition \/ ParseProgram

SpecParse == InitParse /\ [][NextParse]_vars

\* ------------------------------------------------------------------ claims

\* What the claims read off the state when an iteration of execute's loop is
\* about to start: the segment under the cursor, the key looked up, whether
\* the table has it, and the state its transition leads to.
AtIteration == exec_pc = "running" /\ position < Len(inner)

Scanned == inner[position + 1]

Key == <<state, Scanned>>

Matches == Key \in DOMAIN program.transitions

Target == program.transitions[Key].to

\* The index of the first "1" or "0" of a text, 0 when it has none.
FirstBit(s) ==
    LET bits == {k \in 1..Len(s) : s[k] \in {"1", "0"}}
    IN  IF bits = {} THEN 0
        ELSE (CHOOSE k \in bits : \A j \in bits : k <= j) - 1

\* C1: a tape built by the constructor (which accepts only a starting index
\* inside a non-empty sequence) keeps 0 <= position < inner.len() after any
\* right, left, put and current calls, so current is always defined.
C1_CursorInWindow ==
    (origin = "new" /\ tape_pc = "ready") =>
        /\ position \in 0..(Len(inner) - 1)
        /\ Len(inner) > 0

\* A constructed tape that was moved right past its edge up to the bound.
C1_Witness ==
    /\ origin = "new"
    /\ tape_pc = "ready"
    /\ Len(inner) = MaxTape
    /\ position = MaxTape - 1
    /\ read = "Empty"

\* C2: from_str leaves the cursor at the index of the first "1" or "0" of
\* the text, and at 0 when the text has none.
C2_CursorAtFirstBit ==
    [][(tape_pc = "call" /\ call.kind = "from_str" /\ tape_pc' = "ready")
        => position' = FirstBit(call.text)]_vars

\* C3: a tape that from_str returned has a cursor inside its window, and
\* keeps it there under right and left.
C3_ParsedCursorInWindow ==
    (origin = "from_str" /\ tape_pc = "ready") => position < Len(inner)

\* C4: an iteration returns UndefinedBehavior exactly when the table has no
\* entry for (state, segment under the cursor); the error carries that pair,
\* the iteration leaves the tape alone, and nothing runs after the return.
C4_UndefinedBehavior ==
    /\ [][AtIteration =>
            /\ (~Matches) <=>
                 (exec_pc' = "returned" /\ result'.kind = "UndefinedBehavior")
            /\ (~Matches) =>
                 /\ result' = [kind |-> "UndefinedBehavior", state |-> state,
                               segment |-> Scanned]
                 /\ inner' = inner
                 /\ position' = position]_vars
    /\ [][exec_pc # "returned"]_vars
    /\ [](result.kind = "UndefinedBehavior" => exec_pc = "returned")

\* An undefined (state, segment) met after the run left its initial state.
C4_Witness ==
    /\ exec_pc = "returned"
    /\ result.kind = "UndefinedBehavior"
    /\ steps >= 2
    /\ result.state # program.initial_state

\* C5: a transition into a state of error_states that is not in final_states
\* ends the run at that step with ReachedError of that state, which is never
\* replaced by Ok; ReachedError(s) is only returned for s in error_states.
C5_ReachedError ==
    /\ [][(AtIteration /\ Matches /\ Target \in program.error_states
                /\ Target \notin program.final_states)
            => /\ exec_pc' = "returned"
               /\ result' = [kind |-> "ReachedError", state |-> Target,
                             segment |-> "none"]]_vars
    /\ [][result.kind = "ReachedError" => result' = result]_vars
    /\ [](result.kind = "ReachedError" =>
            /\ exec_pc = "returned"
            /\ result.state \in program.error_states)

\* ReachedError after more than one transition.
C5_Witness ==
    /\ exec_pc = "returned"
    /\ result.kind = "ReachedError"
    /\ result.state \notin program.final_states
    /\ steps >= 2

\* C6: Ok(s) is returned only by a step whose transition leads to s, with s
\* in final_states, and the first step whose transition leads to a final
\* state returns.
C6_OkIsFinalTarget ==
    /\ [][(exec_pc' = "returned" /\ result'.kind = "Ok")
            => /\ AtIteration
               /\ Matches
               /\ result'.state = Target
               /\ Target \in program.final_states]_vars
    /\ [][(AtIteration /\ Matches /\ Target \in program.final_states)
            => /\ exec_pc' = "returned"
               /\ result' = [kind |-> "Ok", state |-> Target,
                             segment |-> "none"]]_vars
    /\ [](result.kind = "Ok" =>
            /\ exec_pc = "returned"
            /\ result.state \in program.final_states)

\* Ok after more than one transition, in a state other than the initial one.
C6_Witness ==
    /\ exec_pc = "returned"
    /\ result.kind = "Ok"
    /\ steps >= 2
    /\ result.state # program.initial_state

\* C7: a transition into a state that is both in final_states and in
\* error_states returns Ok of that state, never ReachedError.
C7_FinalBeforeError ==
    /\ [][(AtIteration /\ Matches
                /\ Target \in program.final_states \cap program.error_states)
            => /\ exec_pc' = "returned"
               /\ result' = [kind |-> "Ok", state |-> Target,
                             segment |-> "none"]]_vars
    /\ [](result.kind = "ReachedError" =>
            result.state \notin program.final_states)

\* A run that ended in a state declared final and error.
C7_Witness ==
    /\ exec_pc = "returned"
    /\ result.kind = "Ok"
    /\ result.state \in program.final_states \cap program.error_states
\* The number a sequence of "Zero" and "One" segments writes in binary.
RECURSIVE BitsValue(_)
BitsValue(bits) ==
    IF bits = <<>> THEN 0
    ELSE 2 * BitsValue(SubSeq(bits, 1, Len(bits) - 1))
            + (IF bits[Len(bits)] = "One" THEN 1 ELSE 0)

IsBit(x) == x # "Empty"

\* The segments of a window that are not Empty, in order.
Digits(window) == SelectSeq(window, IsBit)

\* The window is: Empty segments, then at least one bit, then Empty segments.
BitsAmongBlanks(window) ==
    \E i \in 1..Len(window) : \E j \in i..Len(window) :
        \A k \in 1..Len(window) : (window[k] # "Empty") <=> (i <= k /\ k <= j)

\* The tape is Empty, a non-empty string of bits, Empty, the cursor on the
\* first bit.
IncrementInput(t) ==
    /\ Len(t.inner) >= 3
    /\ t.inner[1] = "Empty"
    /\ t.inner[Len(t.inner)] = "Empty"
    /\ \A k \in 2..(Len(t.inner) - 1) : t.inner[k] # "Empty"
    /\ t.position = 1

\* C8: the increment program on a tape Empty, bits, Empty with the cursor on
\* the first bit returns Ok(3) and leaves the bits of the number plus one
\* among Empty segments only; from _111_ it leaves what parsing 1000_ gives.
C8_Increment ==
    /\ []((program = IncrementProgram /\ IncrementInput(tape0)
                /\ exec_pc = "returned")
            => /\ result = [kind |-> "Ok", state |-> 3, segment |-> "none"]
               /\ BitsAmongBlanks(inner)
               /\ BitsValue(Digits(inner)) = BitsValue(Digits(tape0.inner)) + 1
               /\ (tape0.inner = <<"Empty", "One", "One", "One", "Empty">>
                    => inner = VecTape_from_str(<<"1", "0", "0", "0", "_">>).inner))
    /\ (program = IncrementProgram /\ IncrementInput(tape0))
            => <>(exec_pc = "returned")

\* The run on _111_ has returned, the carry having reached the left blank.
C8_Witness ==
    /\ program = IncrementProgram
    /\ tape0 = [inner |-> <<"Empty", "One", "One", "One", "Empty">>,
                position |-> 1]
    /\ exec_pc = "returned"
    /\ inner = <<"One", "Zero", "Zero", "Zero", "Empty">>

\* C9: an iteration whose transition leads to a state that is neither final
\* nor error never ends the run, however many transitions were applied; a
\* run that returned returned Ok of a final state, ReachedError or
\* UndefinedBehavior.
C9_NoStepLimit ==
    /\ [][(AtIteration /\ Matches
                /\ Target \notin program.final_states \cup program.error_states)
            => (exec_pc' = "running" /\ result' = result)]_vars
    /\ [](exec_pc = "returned" =>
            \/ result.kind = "Ok" /\ result.state \in program.final_states
            \/ result.kind = "ReachedError"
            \/ result.kind = "UndefinedBehavior")
    /\ [](exec_pc = "running" => result.kind = "none")

\* A run still going after MaxSteps transitions, back on a cell and in a
\* state it was in before.
C9_Witness ==
    /\ exec_pc = "running"
    /\ steps = MaxSteps
    /\ state = program.initial_state
    /\ tape0 = [inner |-> inner, position |-> position]

\* C10: no step of execute changes the Program, and a second run of it on a
\* tape equal to the first run's returns the same result and leaves the same
\* tape.
C10_ProgramUnchanged ==
    /\ [][program' = program]_vars
    /\ []((first.run = 2 /\ exec_pc = "returned")
            => /\ result = first.result
               /\ inner = first.inner
               /\ position = first.position)

\* A second run that returned after changing the tape.
C10_Witness ==
    /\ first.run = 2
    /\ exec_pc = "returned"
    /\ steps >= 2
    /\ inner # tape0.inner
\* The segment a window shows at index k (from 0), Empty outside of it: the
\* logically infinite tape the window stands for.
Cell(window, k) ==
    IF 0 <= k /\ k < Len(window) THEN window[k + 1] ELSE "Empty"

\* C11: parsing the text Display renders of a tape gives a tape with the
\* same materialized segments (same length, same segment at every index).
C11_RoundTrip ==
    [][(tape_pc = "call" /\ call.kind = "from_str" /\ origin # "none")
        => /\ tape_pc' = "ready"
           /\ Len(inner') = Len(inner)
           /\ \A k \in 1..Len(inner) : inner'[k] = inner[k]]_vars

\* A window of all three segments, grown to the bound, that came back from
\* the round trip.
C11_Witness ==
    /\ origin = "round_trip"
    /\ tape_pc = "ready"
    /\ Len(inner) = MaxTape
    /\ {inner[k] : k \in 1..Len(inner)} = {"Zero", "One", "Empty"}
\* C16: the constructor called with a starting index that is not inside the
\* sequence panics and leaves no tape to use; called with an index inside it,
\* it returns the tape of exactly that sequence and cursor.
C16_Constructor ==
    /\ [][(tape_pc = "call" /\ call.kind = "new")
            => IF call.position < Len(call.inner)
               THEN /\ tape_pc' = "ready"
                    /\ inner' = call.inner
                    /\ position' = call.position
               ELSE tape_pc' = "panicked"]_vars
    /\ [][tape_pc # "panicked"]_vars

\* The constructor panicked.
C16_Witness ==
    /\ origin = "new"
    /\ tape_pc = "panicked"

\* C17: seen as the infinite tape that is Empty outside the window, left
\* moves the cursor one cell left and right one cell right and neither
\* changes a cell; the window grows by one segment exactly when left is
\* called at index 0 (the cursor index stays 0, the cells shift by one) or
\* right at the last index.
C17_LogicalTape ==
    /\ [][Left =>
            LET sh == IF position = 0 THEN 1 ELSE 0
            IN  /\ Len(inner') = Len(inner) + sh
                /\ position' - sh = position - 1
                /\ \A k \in (0 - 2)..(MaxTape + 1) :
                      Cell(inner', k + sh) = Cell(inner, k)]_vars
    /\ [][Right =>
            LET grow == IF position = Len(inner) - 1 THEN 1 ELSE 0
            IN  /\ Len(inner') = Len(inner) + grow
                /\ position' = position + 1
                /\ \A k \in (0 - 2)..(MaxTape + 1) :
                      Cell(inner', k) = Cell(inner, k)]_vars

\* A constructed window that grew to the bound, the cursor at its left edge
\* on a segment other than the Empty ones the moves add.
C17_Witness ==
    /\ origin = "new"
    /\ tape_pc = "ready"
    /\ Len(inner) = MaxTape
    /\ position = 0
    /\ inner[1] = "Empty"
    /\ inner[MaxTape] = "Empty"
    /\ \E k \in 2..(MaxTape - 1) : inner[k] = "Zero"
\* C19: a step that finds a transition writes its segment into the cell that
\* was read and into no other, then moves (Nothing leaves the cursor and the
\* window's length alone), then takes the new state; this holds of the steps
\* that end the run as of the others.
C19_WriteThenMove ==
    [][(AtIteration /\ Matches) =>
        LET T == program.transitions[Key]
            sh == IF T.action = "Left" /\ position = 0 THEN 1 ELSE 0
        IN  /\ inner'[position + 1 + sh] = T.write
            /\ \A k \in 1..Len(inner) :
                  k # position + 1 => inner'[k + sh] = inner[k]
            /\ \A k \in 1..Len(inner') :
                  (k - sh) \notin 1..Len(inner) => inner'[k] = "Empty"
            /\ T.action = "Nothing" =>
                  (position' = position /\ Len(inner') = Len(inner))
            /\ T.action = "Right" => position' = position + 1
            /\ T.action = "Left" => position' - sh = position - 1
            /\ state' = T.to]_vars

\* A run ended by ReachedError whose last steps wrote the tape and moved the
\* cursor off the window it started with.
C19_Witness ==
    /\ exec_pc = "returned"
    /\ result.kind = "ReachedError"
    /\ steps >= 2
    /\ Len(inner) > Len(tape0.inner)
    /\ \E k \in 1..Len(inner) : inner[k] = "One"
    /\ tape0.inner = <<"Empty">>
\* C18: on every tape either backend can hold, right, left, put and current
\* of VecTape and of VecDequeTape give the same window, cursor and segment
\* (and fail on the same tapes), the two constructors and the two from_str
\* accept the same calls with the same tape, and the write and move of any
\* transition, which is all execute does to its tape, come out the same.
C18_BackendsAgree ==
    /\ tape_pc = "ready" =>
        /\ VecTape_right(tape) = VecDequeTape_right(tape)
        /\ VecTape_left(tape) = VecDequeTape_left(tape)
        /\ VecTape_in_bounds(tape) = VecDequeTape_in_bounds(tape)
        /\ VecTape_in_bounds(tape) =>
            /\ VecTape_current(tape) = VecDequeTape_current(tape)
            /\ \A g \in Segment :
                  VecTape_put(tape, g) = VecDequeTape_put(tape, g)
            /\ \A tr \in ProgTransitions \cup IncrementTransitions :
                  WriteAndMove("Vec", tape, tr) = WriteAndMove("VecDeque", tape, tr)
    /\ (tape_pc = "call" /\ call.kind = "new") =>
          VecTape_new_asserts(call.inner, call.position)
            = VecDequeTape_new_asserts(call.inner, call.position)
    /\ (tape_pc = "call" /\ call.kind = "from_str") =>
          VecTape_from_str(call.text) = VecDequeTape_from_str(call.text)

\* A VecDeque tape that left and right have grown to the bound on both sides.
C18_Witness ==
    /\ backend = "VecDeque"
    /\ origin = "new"
    /\ tape_pc = "ready"
    /\ Len(inner) = MaxTape
    /\ inner[1] = "Empty"
    /\ inner[MaxTape] = "Empty"
    /\ \E k \in 2..(MaxTape - 1) : inner[k] = "One"
    /\ read = "One"
\* A text the code takes as a state: digits, after a "+" or not.
IsStateText(f) ==
    \E d \in {f} \cup (IF f # <<>> /\ f[1] = "+" THEN {Tail(f)} ELSE {}) :
        d # <<>> /\ \A k \in 1..Len(d) : d[k] \in Digit

\* Whether the k-th field of a transition line has valid content.
FieldOk(k, f) ==
    CASE k \in {1, 2} -> IsStateText(f)
      [] k \in {3, 4} -> f \in {<<"1">>, <<"0">>, <<"_">>, <<" ">>}
      [] k = 5 -> f \in {<<"r">>, <<"R">>, <<"l">>, <<"L">>, <<"n">>, <<"N">>,
                         <<>>, <<"_">>, <<" ">>}

MissingOf ==
    <<"MissingFrom", "MissingTo", "MissingCondition", "MissingWrite",
      "MissingAction">>

InvalidOf ==
    <<"InvalidState", "InvalidState", "InvalidSegment", "InvalidSegment",
      "InvalidAction">>

\* C13: a transition line of fewer than five fields fails with the Missing*
\* error of its first absent field whatever its fields hold ("1,2,3" and
\* "x,y,z" fail with MissingWrite); a line of five fields or more fails with
\* the content error of its leftmost invalid field, and parses if it has none.
C13_MissingBeforeContent ==
    (parse_pc = "returned" /\ source.kind = "transition") =>
        LET fs == source.pieces
            n == Len(fs)
            bad == {k \in 1..5 : ~FieldOk(k, fs[k])}
        IN  /\ n < 5 => parsed = ParseErr(MissingOf[n + 1])
            /\ (n >= 5 /\ bad # {}) =>
                  \E k \in bad : /\ \A j \in bad : k <= j
                                 /\ parsed = ParseErr(InvalidOf[k])
            /\ (n >= 5 /\ bad = {}) => parsed.ok
            /\ fs \in {<<<<"1">>, <<"2">>, <<"3">>>>,
                       <<<<"x">>, <<"y">>, <<"z">>>>} =>
                  parsed = ParseErr("MissingWrite")

\* The line "x,y,z", three invalid fields out of five, has been parsed.
C13_Witness ==
    /\ parse_pc = "returned"
    /\ source.kind = "transition"
    /\ source.text = <<"x", ",", "y", ",", "z">>
    /\ parsed = ParseErr("MissingWrite")

\* C20: a transition line of five fields whose fifth is empty and whose
\* other four are valid parses to a transition that stays ("1,2,0,1," to
\* state 1, state 2, Zero, One, Nothing); a line of four fields fails with
\* MissingAction.
C20_EmptyActionStays ==
    (parse_pc = "returned" /\ source.kind = "transition") =>
        LET fs == source.pieces
        IN  /\ (Len(fs) = 5 /\ fs[5] = <<>>
                  /\ \A k \in 1..4 : FieldOk(k, fs[k])) =>
                  parsed.ok /\ parsed.value.action = "Nothing"
            /\ Len(fs) = 4 => parsed = ParseErr("MissingAction")
            /\ source.text = <<"1", ",", "2", ",", "0", ",", "1", ",">> =>
                  parsed = ParseOk(Transition(1, 2, "Zero", "One", "Nothing"))
            /\ source.text = <<"1", ",", "2", ",", "0", ",", "1">> =>
                  parsed = ParseErr("MissingAction")

\* The line "1,2,0,1," has been parsed to a transition that stays.
C20_Witness ==
    /\ parse_pc = "returned"
    /\ source.kind = "transition"
    /\ source.text = <<"1", ",", "2", ",", "0", ",", "1", ",">>
    /\ parsed.ok
    /\ parsed.value.action = "Nothing"
\* What the first character of a program line makes of it.
LineKind(l) ==
    IF l = <<>> \/ l[1] \in {"#", "/"} THEN "skipped"
    ELSE IF l[1] = "+" THEN "initial"
    ELSE IF l[1] = "-" THEN "final"
    ELSE IF l[1] = "!" THEN "error"
    ELSE "transition"

\* What a line that is not skipped parses to, taken alone.
LineResult(l) ==
    IF LineKind(l) = "transition"
    THEN Transition_from_str(l)
    ELSE State_from_str(Tail(l))

\* The lines of ls that do not parse, and its lines of the kind kd.
InvalidLines(ls) ==
    {k \in 1..Len(ls) : LineKind(ls[k]) # "skipped" /\ ~LineResult(ls[k]).ok}

LinesOfKind(ls, kd) == {k \in 1..Len(ls) : LineKind(ls[k]) = kd}

Last(S) == CHOOSE k \in S : \A j \in S : j <= k

Earliest(S) == CHOOSE k \in S : \A j \in S : k <= j

\* The key (from, condition) of the transition line l.
KeyOf(l) == <<LineResult(l).value.from, LineResult(l).value.condition>>

\* A program call has returned for a text all of whose lines are valid.
ParsedValidText ==
    /\ parse_pc = "returned"
    /\ source.kind = "program"
    /\ InvalidLines(source.pieces) = {}

\* C12: parsing a text of valid lines with a "+" line or more succeeds, the
\* initial state is that of the last "+" line, the table has one entry for
\* every key that a transition line has, and the entry of a key is the
\* transition (its to, write and action) of the last line with that key.
C12_LastWriteWins ==
    (ParsedValidText /\ LinesOfKind(source.pieces, "initial") # {}) =>
        LET ls == source.pieces
            plus == LinesOfKind(ls, "initial")
            trs == LinesOfKind(ls, "transition")
        IN  /\ parsed.ok
            /\ parsed.value.initial_state = LineResult(ls[Last(plus)]).value
            /\ DOMAIN parsed.value.transitions = {KeyOf(ls[k]) : k \in trs}
            /\ \A k \in trs :
                  LET same == {j \in trs : KeyOf(ls[j]) = KeyOf(ls[k])}
                  IN  parsed.value.transitions[KeyOf(ls[k])]
                        = LineResult(ls[Last(same)]).value

\* A text with "+0" before "+1" and with two transitions of the key
\* (0, Empty), the later to state 0 writing Zero and moving left, has parsed
\* to a program that starts in state 1 and holds the later transition.
C12_Witness ==
    /\ ParsedValidText
    /\ source.pieces = << <<"+", "0">>,
                          <<"0", ",", "1", ",", "_", ",", "1", ",", "r">>,
                          <<"+", "1">>,
                          <<"0", ",", "0", ",", " ", ",", "0", ",", "l">> >>
    /\ parsed.ok
    /\ parsed.value.initial_state = 1
    /\ parsed.value.transitions[<<0, "Empty">>]
          = Transition(0, 0, "Empty", "Zero", "Left")

\* C14: parsing a text of valid lines fails with MissingInitialState if it
\* has no "+" line, and succeeds if it has one.
C14_MissingInitialState ==
    ParsedValidText =>
        IF LinesOfKind(source.pieces, "initial") = {}
        THEN parsed = ParseErr("MissingInitialState")
        ELSE parsed.ok

\* A text of a comment, a final state and a transition, without a "+" line,
\* has failed with MissingInitialState.
C14_Witness ==
    /\ ParsedValidText
    /\ source.pieces = << <<"#", "c">>, <<"-", "1">>,
                          <<"0", ",", "1", ",", "_", ",", "1", ",", "r">> >>
    /\ parsed = ParseErr("MissingInitialState")

\* C15: parsing a text with an invalid line or more returns the error of the
\* earliest invalid line, with a "+" line or without; MissingInitialState is
\* returned only for a text without invalid lines.
C15_FirstError ==
    (parse_pc = "returned" /\ source.kind = "program") =>
        LET ls == source.pieces
            bad == InvalidLines(ls)
        IN  /\ bad # {} => parsed = LineResult(ls[Earliest(bad)])
            /\ parsed = ParseErr("MissingInitialState") => bad = {}

\* A text without a "+" line whose second line lacks its write field and
\* whose third line has an invalid segment has failed with MissingWrite.
C15_Witness ==
    /\ parse_pc = "returned"
    /\ source.kind = "program"
    /\ source.pieces = << <<"-", "1">>,
                          <<"0", ",", "1", ",", "_">>,
                          <<"0", ",", "1", ",", "x", ",", "1", ",", "r">> >>
    /\ parsed = ParseErr("MissingWrite")
\* C21: calling execute only sets state to the initial state; the first
\* iteration, whether or not that state is in final_states or error_states,
\* applies the transition of (initial state, segment under the cursor) or
\* returns UndefinedBehavior of that pair; so Ok and ReachedError are only
\* returned after one transition at least has been applied.
C21_NoInitialCheck ==
    /\ [][exec_pc = "idle" =>
            /\ exec_pc' = "running"
            /\ state' = program.initial_state
            /\ result' = result
            /\ inner' = inner
            /\ position' = position]_vars
    /\ [][(AtIteration /\ steps = 0) =>
            /\ state = program.initial_state
            /\ IF Matches
               THEN /\ steps' = 1
                    /\ state' = Target
                    /\ inner'[position + 1
                              + (IF position = 0
                                    /\ program.transitions[Key].action = "Left"
                                 THEN 1 ELSE 0)]
                          = program.transitions[Key].write
               ELSE /\ steps' = 0
                    /\ exec_pc' = "returned"
                    /\ result' = [kind |-> "UndefinedBehavior",
                                  state |-> program.initial_state,
                                  segment |-> Scanned]]_vars
    /\ []((exec_pc = "returned" /\ result.kind \in {"Ok", "ReachedError"})
            => steps >= 1)

\* A run whose initial state is final and an error state has returned
\* UndefinedBehavior of the initial state without applying a transition.
C21_Witness ==
    /\ exec_pc = "returned"
    /\ program.initial_state \in program.final_states
    /\ program.initial_state \in program.error_states
    /\ steps = 0
    /\ result.kind = "UndefinedBehavior"
    /\ result.state = program.initial_state
\* C22: the step that makes execute return UndefinedBehavior changes neither
\* the window nor the cursor, so the tape stays as the last applied
\* transition left it; a run that returns UndefinedBehavior without having
\* applied a transition leaves the tape the machine was built from.
C22_UndefinedLeavesTape ==
    /\ [][(exec_pc' = "returned" /\ result'.kind = "UndefinedBehavior") =>
            (inner' = inner /\ position' = position)]_vars
    /\ []((exec_pc = "returned" /\ result.kind = "UndefinedBehavior"
              /\ steps = 0) =>
            Tape(inner, position) = tape0)

\* UndefinedBehavior after transitions that wrote to the tape and moved the
\* cursor: what they did is still there.
C22_Witness ==
    /\ exec_pc = "returned"
    /\ result.kind = "UndefinedBehavior"
    /\ steps >= 2
    /\ inner # tape0.inner
    /\ position # tape0.position
    /\ Len(inner) = Len(tape0.inner)
\* C23: no call of the parser returns MissingFrom; a transition line has one
\* field at least, so a line of one field fails with MissingTo, whatever
\* the field holds, alone or as the first invalid line of a program text.
C23_NeverMissingFrom ==
    parse_pc = "returned" =>
        /\ parsed # ParseErr("MissingFrom")
        /\ (source.kind = "transition" /\ Len(source.pieces) = 1) =>
              parsed = ParseErr("MissingTo")
        /\ (source.kind = "program"
              /\ \E k \in 1..Len(source.pieces) :
                    /\ source.pieces[k] = <<"x">>
                    /\ \A j \in 1..(k - 1) : j \notin InvalidLines(source.pieces))
              => parsed = ParseErr("MissingTo")

\* A program text whose only invalid line has a single field, and that
\* not a state, has failed with MissingTo.
C23_Witness ==
    /\ parse_pc = "returned"
    /\ source.kind = "program"
    /\ source.pieces = << <<"+", "0">>, <<"x">>, <<"-", "1">> >>
    /\ parsed = ParseErr("MissingTo")
\* C24: a transition line of more than five fields parses as the line of
\* its first five fields does: it is accepted exactly when these five are
\* valid, the transition then holds what these five give, an invalid one
\* among them gives its error, and the fields after the fifth change nothing.
C24_ExtraFieldsIgnored ==
    (parse_pc = "returned" /\ source.kind = "transition"
        /\ Len(source.pieces) > 5) =>
        LET fs == source.pieces
            five == SubSeq(fs, 1, 5)
            bad == {k \in 1..5 : ~FieldOk(k, fs[k])}
        IN  /\ parsed = Transition_from_str(Join(five, ","))
            /\ parsed.ok <=> bad = {}
            /\ bad # {} => parsed = ParseErr(InvalidOf[Earliest(bad)])
            /\ bad = {} =>
                  parsed.value =
                      Transition(State_from_str(fs[1]).value,
                                 State_from_str(fs[2]).value,
                                 Segment_from_str(fs[3]).value,
                                 Segment_from_str(fs[4]).value,
                                 Move_from_str(fs[5]).value)

\* The line "0,+1,_,1,r,x," of seven fields, the sixth invalid and the
\* seventh empty, has parsed to the transition of "0,+1,_,1,r".
C24_Witness ==
    /\ parse_pc = "returned"
    /\ source.kind = "transition"
    /\ source.text = <<"0", ",", "+", "1", ",", "_", ",", "1", ",", "r", ",",
                       "x", ",">>
    /\ Len(source.pieces) = 7
    /\ parsed = ParseOk(Transition(0, 1, "Empty", "One", "Right"))
====
